---- MODULE Spec2Model ----
(***************************************************************************)
(* News API (src/main.py): slug normalisation, the check-then-insert       *)
(* creation handlers for the 'category' and 'article' collections, the     *)
(* seed handler and the read handlers.                                     *)
(*                                                                         *)
(* A Python str is a sequence of characters; a character is a one-letter   *)
(* string, or a "U+XXXX" token for a non-ASCII code point.                 *)
(***************************************************************************)
EXTENDS Integers, Sequences, FiniteSets, TLC

VARIABLES db, category, article, resp, nreq, pc, local, text, out, again

vars == <<db, category, article, resp, nreq, pc, local, text, out, again>>

(***************************************************************************)
(* Characters                                                              *)
(***************************************************************************)
LowerSeq == <<"a","b","c","d","e","f","g","h","i","j","k","l","m",
              "n","o","p","q","r","s","t","u","v","w","x","y","z">>

UpperSeq == <<"A","B","C","D","E","F","G","H","I","J","K","L","M",
              "N","O","P","Q","R","S","T","U","V","W","X","Y","Z">>

LowerLetters == {LowerSeq[i] : i \in 1..Len(LowerSeq)}

UpperLetters == {UpperSeq[i] : i \in 1..Len(UpperSeq)}

Digits == {"0","1","2","3","4","5","6","7","8","9"}

\* str.isspace() and the regex class \s agree on a str: ASCII whitespace and
\* the Unicode spaces, here U+00A0 (no-break space).
Whitespace == {" ", "\t", "\n", "\r", "U+00A0"}

\* The absence of a character, in the fixed-width tables below.
NoChar == "U+NONE"

\* str.lower() of one character, as a pair: most characters map to one
\* character; U+0130 (capital I with dot above) maps to "i" followed by
\* U+0307 (combining dot above); U+212A (Kelvin sign) maps to "k".
LowerChar(c) ==
    IF c \in UpperLetters
    THEN <<LowerSeq[CHOOSE i \in 1..Len(UpperSeq) : UpperSeq[i] = c], NoChar>>
    ELSE IF c = "U+0130" THEN <<"i", "U+0307">>
    ELSE IF c = "U+212A" THEN <<"k", NoChar>>
    ELSE <<c, NoChar>>

IsChar(c) == c # NoChar

\* str.lower()
lower(s) ==
    SelectSeq([k \in 1..(2 * Len(s)) |-> LowerChar(s[(k + 1) \div 2])[2 - (k % 2)]],
              IsChar)

RECURSIVE LeadingIn(_, _, _)
\* Index of the first character of s, at or after i, that is not in set cs
\* (Len(s) + 1 when there is none).
LeadingIn(s, cs, i) ==
    IF i > Len(s) \/ s[i] \notin cs THEN i ELSE LeadingIn(s, cs, i + 1)

RECURSIVE TrailingIn(_, _, _)
\* Index of the last character of s, at or before i, that is not in set cs
\* (0 when there is none).
TrailingIn(s, cs, i) ==
    IF i < 1 \/ s[i] \notin cs THEN i ELSE TrailingIn(s, cs, i - 1)

\* str.strip(chars): drop the leading and trailing characters that are in cs.
StripSet(s, cs) == SubSeq(s, LeadingIn(s, cs, 1), TrailingIn(s, cs, Len(s)))

\* str.strip()
strip(s) == StripSet(s, Whitespace)

\* The class [a-z0-9\s-] of the first re.sub.
IsKept(c) == c \in LowerLetters \cup Digits \cup Whitespace \cup {"-"}

\* re.sub(r"[^a-z0-9\s-]", "", s)
RemoveInvalid(s) == SelectSeq(s, IsKept)

\* The class [\s-] of the second re.sub.
IsSeparator(c) == c \in Whitespace \cup {"-"}

\* re.sub(r"[\s-]+", "-", s): every maximal run of separators becomes one "-".
CollapseSeparators(s) ==
    SelectSeq([i \in 1..Len(s) |->
                  IF ~IsSeparator(s[i]) THEN s[i]
                  ELSE IF i > 1 /\ IsSeparator(s[i - 1]) THEN NoChar
                  ELSE "-"],
              IsChar)

\* A plausible slip: the hyphens are stripped before the runs are collapsed.
slugify_stripfirst(s) ==
    CollapseSeparators(StripSet(RemoveInvalid(strip(lower(s))), {"-"}))

\* A plausible slip: the two substitutions in the opposite order.
slugify_swapped(s) ==
    StripSet(RemoveInvalid(CollapseSeparators(strip(lower(s)))), {"-"})

\* slugify(text)
slugify(s) ==
    StripSet(CollapseSeparators(RemoveInvalid(strip(lower(s)))), {"-"})

(***************************************************************************)
(* Values                                                                  *)
(***************************************************************************)
\* Optional[str]: None is the empty set, a str s is {s}.
None == {}

Some(s) == {s}

Value(o) == CHOOSE s \in o : TRUE

\* Python truthiness of an Optional[str]: None and "" are falsy.
Falsy(o) == o = None \/ o = Some(<<>>)

\* The cut [:120] of create_article and seed_sample.
SlugMaxLen == 120

\* s[:120]
Truncate(s) == SubSeq(s, 1, IF Len(s) < SlugMaxLen THEN Len(s) ELSE SlugMaxLen)

(***************************************************************************)
(* Storage: a collection is the sequence of its documents in insertion     *)
(* order; a document's _id is the position it was inserted at.             *)
(***************************************************************************)
\* db[collection].find_one({"slug": slug}): the first document with that
\* slug, or None.
FindOne(coll, slug) ==
    LET hits == {i \in 1..Len(coll) : coll[i].slug = slug}
    IN  IF hits = {} THEN None
        ELSE Some(coll[CHOOSE i \in hits : \A j \in hits : i <= j])

\* db[collection].find_one({"_id": oid})
FindById(coll, oid) ==
    IF oid \in 1..Len(coll) THEN Some(coll[oid]) ELSE None

\* create_document(collection, data): insert data under a fresh _id.
NewId(coll) == Len(coll) + 1

CreateDocument(coll, data) ==
    Append(coll, [f \in (DOMAIN data) \cup {"_id"} |->
                     IF f = "_id" THEN NewId(coll) ELSE data[f]])

\* get_documents(collection, {flag: True}, limit): the first `limit`
\* documents whose flag is set.
GetDocuments(coll, flag, limit) ==
    LET hits == {i \in 1..Len(coll) : coll[i][flag]}
    IN  {i \in hits : Cardinality({j \in hits : j <= i}) <= limit}

(***************************************************************************)
(* Request inputs                                                          *)
(***************************************************************************)
World == <<"W","o","r","l","d">>

world == <<"w","o","r","l","d">>

Punct == <<"?","!">>

MarketsTitle ==
    <<"M","a","r","k","e","t","s"," ","r","a","l","l","y"," ","a","s"," ",
      "i","n","f","l","a","t","i","o","n"," ","c","o","o","l","s">>

\* A title that normalises to 121 characters with a hyphen at position 120.
LongTitleHyphen == [i \in 1..(SlugMaxLen - 1) |-> "a"] \o <<" ", "b">>

\* A title that normalises to 125 characters, none of them a hyphen.
LongTitlePlain == [i \in 1..(SlugMaxLen + 5) |-> "X"]

\* An explicit slug of 121 characters.
LongSlug == [i \in 1..(SlugMaxLen - 1) |-> "a"] \o <<"-", "b">>

\* CategoryIn bodies (name, slug, is_active).
CategoryPayloads ==
    { [name |-> World,                            slug |-> None,       is_active |-> TRUE],
      [name |-> <<" ","w","o","r","l","d","-">>,  slug |-> None,       is_active |-> FALSE],
      [name |-> Punct,                            slug |-> None,       is_active |-> TRUE],
      [name |-> Punct,                            slug |-> Some(World), is_active |-> TRUE],
      [name |-> Punct,                            slug |-> Some(world), is_active |-> TRUE],
      [name |-> World,                            slug |-> Some(<<>>), is_active |-> TRUE] }

\* ArticleIn bodies (title, slug, is_published).
ArticlePayloads ==
    { [title |-> MarketsTitle,    slug |-> None,           is_published |-> TRUE],
      [title |-> LongTitleHyphen, slug |-> None,           is_published |-> TRUE],
      [title |-> LongTitlePlain,  slug |-> None,           is_published |-> FALSE],
      [title |-> Punct,           slug |-> None,           is_published |-> TRUE],
      [title |-> Punct,           slug |-> Some(LongSlug), is_published |-> TRUE],
      [title |-> MarketsTitle,    slug |-> Some(World),    is_published |-> TRUE],
      [title |-> MarketsTitle,    slug |-> Some(<<>>),     is_published |-> TRUE] }

\* Path parameters of get_article.
LookupSlugs == {World, <<>>}

\* Path parameters of get_article_by_id: 0 stands for a string that
\* ObjectId() rejects, a positive number for the ObjectId of that position.
LookupIds == {0, 1, 9}

IsObjectId(item_id) == item_id > 0

\* Values of the limit query parameter of list_articles (default 20).
Limits == {1, 20}

\* The number of requests served in a behaviour.
MaxRequests == 4

(***************************************************************************)
(* Handlers, each served from start to end without interleaving            *)
(***************************************************************************)
NoBody == [none |-> TRUE]

Response(op, status, arg, body) ==
    [op |-> op, status |-> status, arg |-> arg, body |-> body]

\* A plausible slip: the supplied slug is normalised like the name.
CategoryData_normalised(payload) ==
    [payload EXCEPT !.slug =
        IF Falsy(payload.slug) THEN slugify(payload.name)
        ELSE slugify(Value(payload.slug))]

\* create_category, lines 95-97: data with its slug resolved.
CategoryData(payload) ==
    [payload EXCEPT !.slug =
        IF Falsy(payload.slug) THEN slugify(payload.name)
        ELSE Value(payload.slug)]

\* create_article, lines 162-164: data with its slug resolved.
ArticleData(payload) ==
    [payload EXCEPT !.slug =
        IF Falsy(payload.slug) THEN Truncate(slugify(payload.title))
        ELSE Value(payload.slug)]

\* A plausible slip: the lookup is skipped for the empty slug.
SlugTaken_nonempty(coll, slug) == slug # <<>> /\ FindOne(coll, slug) # None

\* A plausible slip: the lookup consults both collections.
SlugTaken_anywhere(coll, slug) ==
    db /\ (FindOne(category, slug) # None \/ FindOne(article, slug) # None)

\* `existing = db[...].find_one({"slug": ...}) if db else None; if existing:`
\* db is None (falsy) when no database is configured and a handle, taken as
\* truthy, otherwise; a found document is a non-empty dict, hence truthy.
SlugTaken(coll, slug) == db /\ FindOne(coll, slug) # None

\* A plausible slip: the document is inserted before the slug is looked up.
create_category_insertfirst(payload) ==
    /\ nreq < MaxRequests
    /\ nreq' = nreq + 1
    /\ LET data == CategoryData(payload)
       IN  IF ~db
           THEN /\ resp' = Response("create_category", 500, payload, NoBody)
                /\ UNCHANGED <<category, article>>
           ELSE /\ category' = CreateDocument(category, data)
                /\ resp' = IF SlugTaken(category, data.slug)
                           THEN Response("create_category", 400, payload, NoBody)
                           ELSE Response("create_category", 200, payload,
                                         Value(FindById(category', NewId(category))))
                /\ UNCHANGED article
    /\ UNCHANGED <<db, pc, local, text, out, again>>

\* POST /api/categories
create_category(payload) ==
    /\ nreq < MaxRequests
    /\ nreq' = nreq + 1
    /\ LET data == CategoryData(payload)
       IN  IF SlugTaken(category, data.slug)
           THEN /\ resp' = Response("create_category", 400, payload, NoBody)
                /\ UNCHANGED <<category, article>>
           ELSE IF ~db
           \* without a database no document is stored and db["category"]
           \* fails: the request ends in a server error
           THEN /\ resp' = Response("create_category", 500, payload, NoBody)
                /\ UNCHANGED <<category, article>>
           ELSE /\ category' = CreateDocument(category, data)
                /\ resp' = Response("create_category", 200, payload,
                                    Value(FindById(category', NewId(category))))
                /\ UNCHANGED article
    /\ UNCHANGED <<db, pc, local, text, out, again>>

\* POST /api/articles
create_article(payload) ==
    /\ nreq < MaxRequests
    /\ nreq' = nreq + 1
    /\ LET data == ArticleData(payload)
       IN  IF SlugTaken(article, data.slug)
           THEN /\ resp' = Response("create_article", 400, payload, NoBody)
                /\ UNCHANGED <<category, article>>
           ELSE IF ~db
           THEN /\ resp' = Response("create_article", 500, payload, NoBody)
                /\ UNCHANGED <<category, article>>
           ELSE /\ article' = CreateDocument(article, data)
                /\ resp' = Response("create_article", 200, payload,
                                    Value(FindById(article', NewId(article))))
                /\ UNCHANGED category
    /\ UNCHANGED <<db, pc, local, text, out, again>>

\* seed_sample's categories (name, slug), lines 182-188.
SeedCategoryList ==
    << [name |-> World, slug |-> world],
       [name |-> <<"B","u","s","i","n","e","s","s">>,
        slug |-> <<"b","u","s","i","n","e","s","s">>],
       [name |-> <<"T","e","c","h","n","o","l","o","g","y">>,
        slug |-> <<"t","e","c","h","n","o","l","o","g","y">>],
       [name |-> <<"S","p","o","r","t","s">>,
        slug |-> <<"s","p","o","r","t","s">>],
       [name |-> <<"E","n","t","e","r","t","a","i","n","m","e","n","t">>,
        slug |-> <<"e","n","t","e","r","t","a","i","n","m","e","n","t">>] >>

\* The titles of seed_sample's articles, lines 194-222.
SeedTitleList ==
    << <<"T","e","c","h"," ","g","i","a","n","t","s"," ","u","n","v","e","i","l"," ",
         "n","e","x","t","-","g","e","n"," ","A","I"," ","c","h","i","p","s">>,
       MarketsTitle,
       <<"H","i","s","t","o","r","i","c"," ","w","i","n"," ","i","n"," ",
         "c","h","a","m","p","i","o","n","s","h","i","p"," ","f","i","n","a","l">> >>

RECURSIVE SeedCategories_unchecked(_, _)
\* A plausible slip: the seed inserts without looking the slug up.
SeedCategories_unchecked(coll, k) ==
    IF k > Len(SeedCategoryList) THEN coll
    ELSE SeedCategories_unchecked(
             CreateDocument(coll, [name |-> SeedCategoryList[k].name,
                                   slug |-> SeedCategoryList[k].slug,
                                   is_active |-> TRUE]), k + 1)

\* A plausible slip: the seed starts from an emptied collection.
SeedCategories_reset(coll, k) == SeedCategories_unchecked(<<>>, k)

RECURSIVE SeedCategories(_, _)
\* seed_sample, lines 190-192: the loop from its k-th category on.
SeedCategories(coll, k) ==
    IF k > Len(SeedCategoryList) THEN coll
    ELSE LET c == SeedCategoryList[k]
         IN  IF FindOne(coll, c.slug) = None
             THEN SeedCategories(
                      CreateDocument(coll, [name |-> c.name, slug |-> c.slug,
                                            is_active |-> TRUE]), k + 1)
             ELSE SeedCategories(coll, k + 1)

RECURSIVE SeedArticles(_, _)
\* seed_sample, lines 224-229: the loop from its k-th sample on.
SeedArticles(coll, k) ==
    IF k > Len(SeedTitleList) THEN coll
    ELSE LET slug == Truncate(slugify(SeedTitleList[k]))
         IN  IF FindOne(coll, slug) = None
             THEN SeedArticles(
                      CreateDocument(coll, [title |-> SeedTitleList[k], slug |-> slug,
                                            is_published |-> TRUE]), k + 1)
             ELSE SeedArticles(coll, k + 1)

\* POST /api/seed
seed_sample ==
    /\ nreq < MaxRequests
    /\ nreq' = nreq + 1
    /\ IF ~db
       THEN /\ resp' = Response("seed_sample", 500, NoBody, NoBody)
            /\ UNCHANGED <<category, article>>
       ELSE /\ category' = SeedCategories(category, 1)
            /\ article' = SeedArticles(article, 1)
            /\ resp' = Response("seed_sample", 200, NoBody,
                                [created |-> Len(article') - Len(article)])
    /\ UNCHANGED <<db, pc, local, text, out, again>>

\* GET /api/categories: the active categories (returned sorted by name).
list_categories ==
    /\ nreq < MaxRequests
    /\ nreq' = nreq + 1
    /\ resp' = Response("list_categories", 200, NoBody,
                        IF db THEN GetDocuments(category, "is_active", Len(category))
                        ELSE {})
    /\ UNCHANGED <<db, category, article, pc, local, text, out, again>>

\* GET /api/articles: at most `limit` published articles (returned newest
\* first, content cut to 500 characters in the returned copies).
list_articles(limit) ==
    /\ nreq < MaxRequests
    /\ nreq' = nreq + 1
    /\ resp' = Response("list_articles", 200, limit,
                        IF db THEN GetDocuments(article, "is_published", limit)
                        ELSE {})
    /\ UNCHANGED <<db, category, article, pc, local, text, out, again>>

\* GET /api/articles/{slug}
get_article(slug) ==
    /\ nreq < MaxRequests
    /\ nreq' = nreq + 1
    /\ LET doc == IF db THEN FindOne(article, slug) ELSE None
       IN  resp' = IF doc = None
                   THEN Response("get_article", 404, slug, NoBody)
                   ELSE Response("get_article", 200, slug, Value(doc))
    /\ UNCHANGED <<db, category, article, pc, local, text, out, again>>

\* GET /api/articles/id/{item_id}
get_article_by_id(item_id) ==
    /\ nreq < MaxRequests
    /\ nreq' = nreq + 1
    /\ IF ~IsObjectId(item_id)
       THEN resp' = Response("get_article_by_id", 400, item_id, NoBody)
       ELSE LET doc == IF db THEN FindById(article, item_id) ELSE None
            IN  resp' = IF doc = None
                        THEN Response("get_article_by_id", 404, item_id, NoBody)
                        ELSE Response("get_article_by_id", 200, item_id, Value(doc))
    /\ UNCHANGED <<db, category, article, pc, local, text, out, again>>

(***************************************************************************)
(* The API served one request at a time                                    *)
(***************************************************************************)
Procs == {"w1", "w2"}

Idle == [op |-> "none"]

Init ==
    /\ db \in BOOLEAN
    /\ category = <<>>
    /\ article = <<>>
    /\ resp = Response("none", 0, NoBody, NoBody)
    /\ nreq = 0
    /\ pc = [p \in Procs |-> "idle"]
    /\ local = [p \in Procs |-> Idle]
    /\ text = <<>>
    /\ out = None
    /\ again = None

Next ==
    \/ \E payload \in CategoryPayloads : create_category(payload)
    \/ \E payload \in ArticlePayloads : create_article(payload)
    \/ seed_sample
    \/ list_categories
    \/ \E limit \in Limits : list_articles(limit)
    \/ \E slug \in LookupSlugs : get_article(slug)
    \/ \E item_id \in LookupIds : get_article_by_id(item_id)

Spec == Init /\ [][Next]_vars

(***************************************************************************)
(* Properties of the API served one request at a time                      *)
(***************************************************************************)
SlugsDistinct(coll) ==
    \A i, j \in 1..Len(coll) : i # j => coll[i].slug # coll[j].slug

HasSlug(coll, slug) == \E i \in 1..Len(coll) : coll[i].slug = slug

IsPrefix(a, b) == Len(a) <= Len(b) /\ SubSeq(b, 1, Len(a)) = a

\* coll2 is coll with exactly one more document, whose slug is `slug`.
AddsOne(coll, coll2, slug) ==
    /\ Len(coll2) = Len(coll) + 1
    /\ IsPrefix(coll, coll2)
    /\ coll2[Len(coll2)].slug = slug

\* This step serves a request of handler op.
Serves(op) == nreq' = nreq + 1 /\ resp'.op = op

\* C1: served one request at a time with the storage available, no two
\* categories share a slug and no two articles share a slug.
C1_UniqueSlugs == SlugsDistinct(category) /\ SlugsDistinct(article)

C1_Witness ==
    /\ Len(category) >= 6
    /\ Len(article) >= 4
    /\ resp.op \in {"create_category", "create_article"}
    /\ resp.status = 400

\* The candidate slug as C3 words it: the explicit slug when one is given
\* (the empty string read as none given), otherwise the normalised display
\* field.
StatedCandidate(slug, display) ==
    IF slug = None \/ slug = Some(<<>>) THEN slugify(display) ELSE Value(slug)

\* The first n characters of s.
FirstChars(s, n) == SubSeq(s, 1, IF Len(s) < n THEN Len(s) ELSE n)

\* The candidate slug the lookup uses: the explicit slug when it is a
\* non-empty string, otherwise the normalised display field, which for an
\* article is cut to 120 characters.
CategoryCandidate(payload) ==
    IF payload.slug = None \/ payload.slug = Some(<<>>)
    THEN slugify(payload.name) ELSE Value(payload.slug)

ArticleCandidate(payload) ==
    IF payload.slug = None \/ payload.slug = Some(<<>>)
    THEN FirstChars(slugify(payload.title), SlugMaxLen) ELSE Value(payload.slug)

\* C3 as stated: a creation whose stated candidate slug (the explicit slug, or
\* the normalised display field when no slug is given) is already in the
\* target collection ends in a 400 and leaves both collections as they were.
C3_Stated ==
    [][/\ \A payload \in CategoryPayloads :
            (/\ Serves("create_category") /\ resp'.arg = payload /\ db
             /\ HasSlug(category, StatedCandidate(payload.slug, payload.name)))
            => (resp'.status = 400 /\ category' = category /\ article' = article)
       /\ \A payload \in ArticlePayloads :
            (/\ Serves("create_article") /\ resp'.arg = payload /\ db
             /\ HasSlug(article, StatedCandidate(payload.slug, payload.title)))
            => (resp'.status = 400 /\ category' = category /\ article' = article)
      ]_vars

\* C3, amended: a creation whose candidate slug (the explicit slug when it is
\* a non-empty string, otherwise the normalised display field, cut to 120
\* characters for an article) is already in the target collection ends in a
\* 400 and leaves both collections as they were.
C3_ConflictLeavesNothing ==
    [][/\ \A payload \in CategoryPayloads :
            (/\ Serves("create_category") /\ resp'.arg = payload /\ db
             /\ HasSlug(category, CategoryCandidate(payload)))
            => (resp'.status = 400 /\ category' = category /\ article' = article)
       /\ \A payload \in ArticlePayloads :
            (/\ Serves("create_article") /\ resp'.arg = payload /\ db
             /\ HasSlug(article, ArticleCandidate(payload)))
            => (resp'.status = 400 /\ category' = category /\ article' = article)
      ]_vars

C3_Witness ==
    /\ resp.op = "create_category"
    /\ resp.status = 400
    /\ resp.arg.slug = None
    /\ slugify(resp.arg.name) # resp.arg.name
    /\ HasSlug(category, CategoryCandidate(resp.arg))
    /\ Len(article) >= 1

\* C6: an article created without an explicit slug is stored under its
\* normalised title cut to at most 120 characters, which does not end in a
\* hyphen; when the normalised title is longer than 120 characters the
\* stored slug has exactly 120 characters.
C6_TruncatedSlugHasNoTrailingHyphen ==
    (resp.op = "create_article" /\ resp.status = 200 /\ resp.arg.slug = None)
    => /\ resp.body.slug = SubSeq(slugify(resp.arg.title), 1, Len(resp.body.slug))
       /\ Len(resp.body.slug) <= SlugMaxLen
       /\ Len(slugify(resp.arg.title)) > SlugMaxLen => Len(resp.body.slug) = SlugMaxLen
       /\ resp.body.slug # <<>> => resp.body.slug[Len(resp.body.slug)] # "-"

\* C7 as stated: a creation with an explicit slug s that is not yet in the
\* target collection succeeds and adds exactly one document, whose slug is s.
C7_Stated ==
    [][/\ \A payload \in CategoryPayloads :
            (/\ Serves("create_category") /\ resp'.arg = payload /\ db
             /\ payload.slug # None
             /\ ~HasSlug(category, Value(payload.slug)))
            => /\ resp'.status = 200
               /\ AddsOne(category, category', Value(payload.slug))
               /\ article' = article
       /\ \A payload \in ArticlePayloads :
            (/\ Serves("create_article") /\ resp'.arg = payload /\ db
             /\ payload.slug # None
             /\ ~HasSlug(article, Value(payload.slug)))
            => /\ resp'.status = 200
               /\ AddsOne(article, article', Value(payload.slug))
               /\ category' = category
      ]_vars

\* C7, amended: a creation with a non-empty explicit slug s that is not yet
\* in the target collection succeeds and adds exactly one document, whose slug
\* is s, character for character.
C7_ExplicitSlugVerbatim ==
    [][/\ \A payload \in CategoryPayloads :
            (/\ Serves("create_category") /\ resp'.arg = payload /\ db
             /\ payload.slug \notin {None, Some(<<>>)}
             /\ ~HasSlug(category, Value(payload.slug)))
            => /\ resp'.status = 200
               /\ AddsOne(category, category', Value(payload.slug))
               /\ resp'.body.slug = Value(payload.slug)
               /\ article' = article
       /\ \A payload \in ArticlePayloads :
            (/\ Serves("create_article") /\ resp'.arg = payload /\ db
             /\ payload.slug \notin {None, Some(<<>>)}
             /\ ~HasSlug(article, Value(payload.slug)))
            => /\ resp'.status = 200
               /\ AddsOne(article, article', Value(payload.slug))
               /\ resp'.body.slug = Value(payload.slug)
               /\ category' = category
      ]_vars

\* An explicit slug that normalisation and the cut would both alter has been
\* stored as given.
C7_Witness ==
    /\ resp.op = "create_article"
    /\ resp.status = 200
    /\ resp.arg.slug = Some(LongSlug)
    /\ Len(LongSlug) > SlugMaxLen
    /\ article[Len(article)].slug = LongSlug
    /\ HasSlug(category, World)
    /\ slugify(World) # World

\* C8: create_category leaves 'article' unchanged and conflicts only on a slug
\* held by 'category'; create_article leaves 'category' unchanged and
\* conflicts only on a slug held by 'article'.
C8_IndependentNamespaces ==
    [][/\ \A payload \in CategoryPayloads :
            (Serves("create_category") /\ resp'.arg = payload)
            => /\ article' = article
               /\ resp'.status = 400 =>
                    HasSlug(category, CategoryCandidate(payload))
       /\ \A payload \in ArticlePayloads :
            (Serves("create_article") /\ resp'.arg = payload)
            => /\ category' = category
               /\ resp'.status = 400 =>
                    HasSlug(article, ArticleCandidate(payload))
      ]_vars

\* A category has been created under a slug that an article already holds.
C8_Witness ==
    /\ resp.op = "create_category"
    /\ resp.status = 200
    /\ HasSlug(article, resp.body.slug)
    /\ category[Len(category)].slug = resp.body.slug

\* C9: every stored document stays where it is with the slug it was stored
\* under; the collections only grow by new documents.
C9_SlugFixedAtCreation ==
    [][IsPrefix(category, category') /\ IsPrefix(article, article')]_vars

\* Documents created by requests are still there, unchanged, after a seed,
\* further creations and reads.
C9_Witness ==
    /\ nreq >= 4
    /\ resp.op \in {"list_categories", "list_articles", "get_article", "get_article_by_id"}
    /\ Len(category) >= 6
    /\ Len(article) >= 4
    /\ category[1].slug = World
    /\ article[1].slug = World

\* C10: a creation without an explicit slug whose display field normalises to
\* the empty string stores the document under slug "" when the collection
\* holds no such document, and otherwise ends in a 400 with nothing stored;
\* a document with slug "" stays in its collection.
C10_EmptyCandidate ==
    [][/\ \A payload \in CategoryPayloads :
            (/\ Serves("create_category") /\ resp'.arg = payload /\ db
             /\ payload.slug = None /\ slugify(payload.name) = <<>>)
            => IF HasSlug(category, <<>>)
               THEN resp'.status = 400 /\ category' = category /\ article' = article
               ELSE resp'.status = 200 /\ AddsOne(category, category', <<>>)
       /\ \A payload \in ArticlePayloads :
            (/\ Serves("create_article") /\ resp'.arg = payload /\ db
             /\ payload.slug = None /\ slugify(payload.title) = <<>>)
            => IF HasSlug(article, <<>>)
               THEN resp'.status = 400 /\ category' = category /\ article' = article
               ELSE resp'.status = 200 /\ AddsOne(article, article', <<>>)
       /\ HasSlug(category, <<>>) => HasSlug(category', <<>>)
       /\ HasSlug(article, <<>>) => HasSlug(article', <<>>)
      ]_vars

\* A second creation with an empty candidate has been refused.
C10_Witness ==
    /\ resp.op = "create_article"
    /\ resp.status = 400
    /\ resp.arg.slug = None
    /\ slugify(resp.arg.title) = <<>>
    /\ Cardinality({i \in 1..Len(article) : article[i].slug = <<>>}) = 1

(***************************************************************************)
(* slugify on its own                                                      *)
(***************************************************************************)
Alphabet == {"a", "Z", "7", " ", "-", "!", "U+0130"}

MaxTextLen == 5

Texts == UNION {[1..n -> Alphabet] : n \in 0..MaxTextLen}

InitSlug ==
    /\ db = TRUE
    /\ category = <<>>
    /\ article = <<>>
    /\ resp = Response("none", 0, NoBody, NoBody)
    /\ nreq = 0
    /\ pc = [p \in Procs |-> "idle"]
    /\ local = [p \in Procs |-> Idle]
    /\ text \in Texts
    /\ out = None
    /\ again = None

\* out = slugify(text)
Normalize ==
    /\ out = None
    /\ out' = Some(slugify(text))
    /\ UNCHANGED <<db, category, article, resp, nreq, pc, local, text, again>>

\* again = slugify(out)
NormalizeAgain ==
    /\ out # None
    /\ again = None
    /\ again' = Some(slugify(Value(out)))
    /\ UNCHANGED <<db, category, article, resp, nreq, pc, local, text, out>>

NextSlug == Normalize \/ NormalizeAgain

SpecSlug == InitSlug /\ [][NextSlug]_vars

\* C4: slugify(text) holds only a-z, 0-9 and hyphens, neither begins nor ends
\* with a hyphen and has no two hyphens in a row.
C4_SlugWellFormed ==
    out # None =>
        LET s == Value(out)
        IN  /\ \A i \in 1..Len(s) : s[i] \in LowerLetters \cup Digits \cup {"-"}
            /\ s # <<>> => (s[1] # "-" /\ s[Len(s)] # "-")
            /\ \A i \in 1..(Len(s) - 1) : ~(s[i] = "-" /\ s[i + 1] = "-")

\* "a-! Z" has been normalised to "a-z".
C4_Witness ==
    /\ text = <<"a", "-", "!", " ", "Z">>
    /\ out = Some(<<"a", "-", "z">>)

\* C5: slugify(slugify(x)) = slugify(x).
C5_Idempotent == again # None => again = out

\* The second application has run on a slug that differs from the input.
C5_Witness ==
    /\ again # None
    /\ Value(out) # text
    /\ Len(Value(out)) >= 3

(***************************************************************************)
(* The creation handlers served by concurrent workers: a handler's calls   *)
(* to the storage are separate steps, and the workers' steps interleave.   *)
(***************************************************************************)
\* The number of creation requests begun in a behaviour.
MaxConcRequests == 2

Target(op) == IF op = "create_category" THEN category ELSE article

\* Lines 95-97 and 162-166: the body is read and its slug resolved.
Begin(p) ==
    /\ pc[p] = "idle"
    /\ nreq < MaxConcRequests
    /\ nreq' = nreq + 1
    /\ \/ \E payload \in CategoryPayloads :
            local' = [local EXCEPT ![p] =
                        [op |-> "create_category", payload |-> payload,
                         data |-> CategoryData(payload), status |-> 0, new_id |-> 0]]
       \/ \E payload \in ArticlePayloads :
            local' = [local EXCEPT ![p] =
                        [op |-> "create_article", payload |-> payload,
                         data |-> ArticleData(payload), status |-> 0, new_id |-> 0]]
    /\ pc' = [pc EXCEPT ![p] = "lookup"]
    /\ UNCHANGED <<db, category, article, resp, text, out, again>>

\* Lines 99-101 and 167-169: the lookup by slug; a hit ends the request.
Lookup(p) ==
    /\ pc[p] = "lookup"
    /\ IF SlugTaken(Target(local[p].op), local[p].data.slug)
       THEN /\ local' = [local EXCEPT ![p].status = 400]
            /\ pc' = [pc EXCEPT ![p] = "idle"]
       ELSE /\ pc' = [pc EXCEPT ![p] = "insert"]
            /\ UNCHANGED local
    /\ UNCHANGED <<db, category, article, resp, nreq, text, out, again>>

\* A plausible slip: the slug is normalised once more as it is stored.
Insert_renormalised(p) ==
    /\ pc[p] = "insert"
    /\ IF ~db
       THEN /\ local' = [local EXCEPT ![p].status = 500]
            /\ pc' = [pc EXCEPT ![p] = "idle"]
            /\ UNCHANGED <<category, article>>
       ELSE /\ LET stored == [local[p].data EXCEPT !.slug = slugify(@)]
               IN  IF local[p].op = "create_category"
                   THEN /\ category' = CreateDocument(category, stored)
                        /\ UNCHANGED article
                   ELSE /\ article' = CreateDocument(article, stored)
                        /\ UNCHANGED category
            /\ local' = [local EXCEPT ![p].new_id = NewId(Target(local[p].op))]
            /\ pc' = [pc EXCEPT ![p] = "fetch"]
    /\ UNCHANGED <<db, resp, nreq, text, out, again>>

\* Lines 102 and 170: the insert, whatever the collection holds by now.
Insert(p) ==
    /\ pc[p] = "insert"
    /\ IF ~db
       THEN /\ local' = [local EXCEPT ![p].status = 500]
            /\ pc' = [pc EXCEPT ![p] = "idle"]
            /\ UNCHANGED <<category, article>>
       ELSE /\ IF local[p].op = "create_category"
               THEN /\ category' = CreateDocument(category, local[p].data)
                    /\ UNCHANGED article
               ELSE /\ article' = CreateDocument(article, local[p].data)
                    /\ UNCHANGED category
            /\ local' = [local EXCEPT ![p].new_id = NewId(Target(local[p].op))]
            /\ pc' = [pc EXCEPT ![p] = "fetch"]
    /\ UNCHANGED <<db, resp, nreq, text, out, again>>

\* Lines 103-105 and 171-173: the created document is read back and returned.
Fetch(p) ==
    /\ pc[p] = "fetch"
    /\ FindById(Target(local[p].op), local[p].new_id) # None
    /\ local' = [local EXCEPT ![p].status = 200]
    /\ pc' = [pc EXCEPT ![p] = "idle"]
    /\ UNCHANGED <<db, category, article, resp, nreq, text, out, again>>

NextConc == \E p \in Procs : Begin(p) \/ Lookup(p) \/ Insert(p) \/ Fetch(p)

SpecConc == Init /\ [][NextConc]_vars

\* Worker p's request has ended with status `status`.
Ended(p, status) ==
    pc[p] = "idle" /\ local[p].op # "none" /\ local[p].status = status

\* C2: the lookup and the insert of a creation are separate, unserialised
\* steps: whenever two interleaved creations for the same collection with the
\* same candidate slug have both succeeded, the collection holds two distinct
\* documents with that slug (and such an execution exists: C2_Witness).
C2_BothInsertsHappen ==
    \A p, q \in Procs :
        (/\ p # q
         /\ Ended(p, 200) /\ Ended(q, 200)
         /\ local[p].op = local[q].op
         /\ local[p].data.slug = local[q].data.slug)
        => LET coll == Target(local[p].op)
           IN  /\ local[p].new_id # local[q].new_id
               /\ local[p].new_id \in 1..Len(coll)
               /\ local[q].new_id \in 1..Len(coll)
               /\ coll[local[p].new_id].slug = local[p].data.slug
               /\ coll[local[q].new_id].slug = local[p].data.slug

\* Both requests passed the lookup on an empty collection, both inserted, and
\* the category collection holds two documents with the same slug.
C2_Witness ==
    /\ Ended("w1", 200) /\ Ended("w2", 200)
    /\ local["w1"].op = "create_category" /\ local["w2"].op = "create_category"
    /\ local["w1"].data.slug = local["w2"].data.slug
    /\ Len(category) = 2
    /\ category[1].slug = category[2].slug
    /\ ~SlugsDistinct(category)

====
